---- MODULE Spec2Model ----
(***************************************************************************)
(* Model of the Todo CRUD service: the pydantic schemas, the SQLAlchemy    *)
(* row, the four data-access operations, the five request handlers and     *)
(* the startup migration check.                                            *)
(*                                                                         *)
(* Encoding.  JSON values and Python values are kept apart so that the     *)
(* schema's conversions are visible: a JSON payload is a function from the *)
(* keys it carries to JSON tokens ("true", "null", "2026-01-01", ...), a   *)
(* validated schema object is a function from the keys that were SET to    *)
(* Python values ("True", "None", "date(2026,1,1)", ...).  An Optional row *)
(* (the value of .first()) is a sequence of length 0 or 1; the value of    *)
(* .all() is a sequence of rows.                                           *)
(***************************************************************************)
EXTENDS Integers, Sequences, FiniteSets, TLC

\* ------------------------------------------------------------------ bounds
\* Largest id the table hands out, and the ids requests are made with.
MaxId == 2
\* Number of stamping commits (INSERT / UPDATE) the sequential requests of a
\* behaviour may perform.
MaxClock == 2
\* Number of times a pair of concurrent requests is admitted.
MaxRounds == 1

Ids == 1..MaxId

\* ------------------------------------------------------- values and tokens
None == "None"
JNull == "null"

JTitles == {"a", "b"}
\* a JSON number where a string is required
JBadTitle == "7"
JBools == {"true", "false"}
JBadBool == "maybe"
JDates == {"2026-01-01"}
JBadDate == "invalid"

ParseBool(j) == IF j = "true" THEN "True" ELSE "False"
ParseDate(j) == IF j = "2026-01-01" THEN "date(2026,1,1)" ELSE None
FormatBool(v) == IF v = "True" THEN "true" ELSE "false"
FormatDate(v) == IF v = "date(2026,1,1)" THEN "2026-01-01" ELSE JNull

Fields == {"title", "completed", "due_date"}

\* ----------------------------------------------------------------- schemas
\* due_date typed as a plain string: whatever is sent is accepted.
TodoCreateValid_anydate(body) ==
    /\ "title" \in DOMAIN body
    /\ body["title"] \in JTitles
    /\ "completed" \in DOMAIN body => body["completed"] \in JBools

\* TodoBase / TodoCreate: title required str, completed bool defaulting to
\* False, due_date Optional[date] defaulting to None.  Unknown keys are
\* ignored.
TodoCreateValid(body) ==
    /\ "title" \in DOMAIN body
    /\ body["title"] \in JTitles
    /\ "completed" \in DOMAIN body => body["completed"] \in JBools
    /\ "due_date" \in DOMAIN body => body["due_date"] \in JDates \cup {JNull}

\* The validated TodoCreate object; fields_set is its DOMAIN restricted to
\* the keys the payload carried.
TodoCreate(body) ==
    [k \in (DOMAIN body) \cap Fields |->
        CASE k = "title" -> body[k]
          [] k = "completed" -> ParseBool(body[k])
          [] k = "due_date" -> ParseDate(body[k])]

\* TodoBase with completed: Optional[bool] = None: no False default.
CreateDump_nodefault(todo) ==
    [title |-> todo["title"],
     completed |-> IF "completed" \in DOMAIN todo THEN todo["completed"] ELSE None,
     due_date |-> IF "due_date" \in DOMAIN todo THEN todo["due_date"] ELSE None]

\* TodoCreate.model_dump(): every field, defaults filled in.
CreateDump(todo) ==
    [title |-> todo["title"],
     completed |-> IF "completed" \in DOMAIN todo THEN todo["completed"] ELSE "False",
     due_date |-> IF "due_date" \in DOMAIN todo THEN todo["due_date"] ELSE None]

\* TodoUpdate: every field Optional, so an explicit null is valid.
TodoUpdateValid(body) ==
    /\ "id" \in DOMAIN body => body["id"] \in Int
    /\ "title" \in DOMAIN body => body["title"] \in JTitles \cup {JNull}
    /\ "completed" \in DOMAIN body => body["completed"] \in JBools \cup {JNull}
    /\ "due_date" \in DOMAIN body => body["due_date"] \in JDates \cup {JNull}

\* The validated TodoUpdate object: only declared fields are kept (a key such
\* as "id" is dropped), and the keys kept are the fields that were set.
\* a TodoUpdate that also declares id
TodoUpdateFields_withId == Fields \cup {"id"}

TodoUpdateFields == Fields

TodoUpdate(body) ==
    [k \in (DOMAIN body) \cap TodoUpdateFields |->
        CASE k = "title" -> IF body[k] = JNull THEN None ELSE body[k]
          [] k = "completed" -> IF body[k] = JNull THEN None ELSE ParseBool(body[k])
          [] k = "due_date" -> IF body[k] = JNull THEN None ELSE ParseDate(body[k])
          [] OTHER -> body[k]]

\* model_dump() without exclude_unset: unset fields come out as None.
UpdateDump_all(todo) ==
    [k \in Fields |-> IF k \in DOMAIN todo THEN todo[k] ELSE None]

\* TodoUpdate.model_dump(exclude_unset=True): exactly the fields that were set.
UpdateDump(todo) == todo

\* TodoResponse built from a row (from_attributes): title must be a str and
\* completed a bool, due_date may be None.
TodoResponseValid(row) == row.title # None /\ row.completed # None

TodoResponse(row) ==
    [id |-> row.id, title |-> row.title, completed |-> FormatBool(row.completed),
     due_date |-> FormatDate(row.due_date),
     created_at |-> row.created_at, updated_at |-> row.updated_at]

\* -------------------------------------------------------------------- state
VARIABLES
    phase,      \* "startup" | "checked" | "serving" | "crashed"
    mig,        \* what check_migrations saw and returned, while phase = "checked"
    engine,     \* how the primary key is generated: "rowid" or "sequence"
    seq,        \* last value of the id sequence (engine = "sequence")
    now,        \* timestamp of the latest stamping commit
    todos,      \* the todos table: a set of rows
    last,       \* the latest request: what was asked and what came back
    created,    \* number of create requests that inserted a row
    deleted,    \* number of delete requests that removed a row
    removed,    \* ids deleted and not handed out again since
    sess,       \* the database sessions of the requests in flight
    base,       \* the table as it was when the requests in flight arrived
    rounds      \* number of times concurrent requests have been admitted

vars == <<phase, mig, engine, seq, now, todos, last, created, deleted, removed,
          sess, base, rounds>>

\* ------------------------------------------------------------ storage layer
\* TimeStampMixin: created_at and updated_at are set by the storage layer, both
\* on insert and updated_at again on every UPDATE.
TimeStampOnInsert(t) == [created_at |-> t, updated_at |-> t]
TimeStampOnUpdate(r, k, t) == IF k = "updated_at" THEN t ELSE r[k]

\* class Todo(Base, TimeStampMixin): one row of the table.
Todo(id, vals, t) ==
    [id |-> id, title |-> vals.title, completed |-> vals.completed,
     due_date |-> vals.due_date,
     created_at |-> TimeStampOnInsert(t).created_at,
     updated_at |-> TimeStampOnInsert(t).updated_at]

Max(S) == CHOOSE m \in S : \A x \in S : x <= m

LiveIds(T) == {r.id : r \in T}

\* id = Column(Integer, primary_key=True): the value the INSERT generates.
\* SQLite (the test database) hands out max(rowid) + 1, a sequence-backed
\* engine hands out the next value of its sequence.
NextId(T, eng, sq) ==
    IF eng = "rowid"
    THEN (IF T = {} THEN 1 ELSE Max(LiveIds(T)) + 1)
    ELSE sq + 1

\* db.query(Todo).filter(Todo.id == id).first()
get_todo(T, id) ==
    IF \E r \in T : r.id = id THEN <<CHOOSE r \in T : r.id = id>> ELSE <<>>

\* db.query(Todo).all(), in every order the storage engine may iterate.
RECURSIVE Orders(_)
Orders(T) ==
    IF T = {} THEN {<<>>}
    ELSE UNION {{<<r>> \o s : s \in Orders(T \ {r})} : r \in T}

\* .first() where .all() was meant: at most one row comes back.
get_todos_first(T) == IF T = {} THEN {<<>>} ELSE {<<r>> : r \in T}

get_todos(T) == Orders(T)

\* create_todo that returns the object as constructed, without the refresh
\* that loads the generated id and timestamps.
create_todo_unrefreshed(T, todo, id, t) ==
    LET row == Todo(id, CreateDump(todo), t) IN
    IF id \in LiveIds(T)
    THEN [raised |-> "IntegrityError", ret |-> <<>>, table |-> T]
    ELSE [raised |-> "", ret |-> <<[row EXCEPT !.created_at = 0, !.updated_at = 0]>>,
          table |-> T \cup {row}]

\* create_todo: Todo(**todo.model_dump()), add, commit, refresh.  The INSERT
\* is refused when the primary key is taken.
create_todo(T, todo, id, t) ==
    LET row == Todo(id, CreateDump(todo), t) IN
    IF id \in LiveIds(T)
    THEN [raised |-> "IntegrityError", ret |-> <<>>, table |-> T]
    ELSE [raised |-> "", ret |-> get_todo(T \cup {row}, id), table |-> T \cup {row}]

\* The unit of work behind db.commit(): an attribute that setattr gave the
\* value it was loaded with is no net change and is not written.
NetChanges(loaded, assigned) ==
    {k \in DOMAIN assigned : assigned[k] # loaded[k]}

\* UPDATE todos SET <cols>, updated_at = t WHERE id = <loaded id>, applied to
\* the row as stored now.
ApplyUpdate(r, assigned, cols, t) ==
    [k \in DOMAIN r |->
        IF k \in cols THEN assigned[k] ELSE TimeStampOnUpdate(r, k, t)]

\* The same with an UPDATE that has lost its WHERE clause: every stored row is
\* written.
update_loaded_nowhere(T, loaded, todo, t) ==
    LET assigned == UpdateDump(todo)
        cols == NetChanges(loaded, assigned)
        new == {ApplyUpdate(r, assigned, cols, t) : r \in T}
    IN  IF cols = {} \/ T = {}
        THEN [raised |-> "", ret |-> get_todo(T, loaded.id), table |-> T, wrote |-> FALSE]
        ELSE IF \E r \in new : r.title = None
        THEN [raised |-> "IntegrityError", ret |-> <<>>, table |-> T, wrote |-> FALSE]
        ELSE [raised |-> "", ret |-> get_todo(new, loaded.id), table |-> new, wrote |-> TRUE]

\* setattr for every dumped key, commit, refresh: the part of update_todo
\* after the row was loaded.
update_loaded(T, loaded, todo, t) ==
    LET assigned == UpdateDump(todo)
        cols == NetChanges(loaded, assigned)
        hit == {r \in T : r.id = loaded.id}
        new == {ApplyUpdate(r, assigned, cols, t) : r \in hit}
        rest == T \ hit
        T2 == rest \cup new
    IN  IF cols = {}
        THEN (IF hit = {}
              THEN [raised |-> "InvalidRequestError", ret |-> <<>>, table |-> T, wrote |-> FALSE]
              ELSE [raised |-> "", ret |-> get_todo(T, loaded.id), table |-> T, wrote |-> FALSE])
        ELSE IF hit = {}
        THEN [raised |-> "StaleDataError", ret |-> <<>>, table |-> T, wrote |-> FALSE]
        ELSE IF \E r \in new : r.title = None \/ r.id \in LiveIds(rest)
        THEN [raised |-> "IntegrityError", ret |-> <<>>, table |-> T, wrote |-> FALSE]
        ELSE [raised |-> "", ret |-> get_todo(T2, (CHOOSE r \in new : TRUE).id),
              table |-> T2, wrote |-> TRUE]

\* update_todo that inserts the row it did not find.
update_todo_upsert(T, id, todo, t) ==
    LET db_todo == get_todo(T, id) IN
    IF db_todo # <<>>
    THEN update_loaded(T, db_todo[1], todo, t)
    ELSE [raised |-> "", ret |-> <<>>,
          table |-> T \cup {Todo(id, [title |-> "a", completed |-> "False", due_date |-> None], t)},
          wrote |-> FALSE]

\* update_todo: load the row; when there is one, apply and return it,
\* otherwise fall off the end (None).
update_todo(T, id, todo, t) ==
    LET db_todo == get_todo(T, id) IN
    IF db_todo # <<>>
    THEN update_loaded(T, db_todo[1], todo, t)
    ELSE [raised |-> "", ret |-> <<>>, table |-> T, wrote |-> FALSE]

\* delete without the commit: the row is returned but stays stored.
delete_loaded_uncommitted(T, loaded) ==
    [raised |-> "", ret |-> <<loaded>>, table |-> T]

\* db.delete(db_todo); db.commit(): DELETE FROM todos WHERE id = <loaded id>.
delete_loaded(T, loaded) ==
    [raised |-> "", ret |-> <<loaded>>, table |-> {r \in T : r.id # loaded.id}]

\* delete_todo: load the row; when there is one, delete it; return what was
\* loaded.
delete_todo(T, id) ==
    LET db_todo == get_todo(T, id) IN
    IF db_todo # <<>>
    THEN delete_loaded(T, db_todo[1])
    ELSE [raised |-> "", ret |-> db_todo, table |-> T]

\* ------------------------------------------------------------ startup check
Revs == {"r1", "r2"}
\* The places where obtaining a revision can raise: reading alembic.ini and
\* the script directory, connecting, reading the applied revision, reading
\* the head.
FailPoints == {"config", "connect", "current", "head"}

\* check_migrations without the except clause: a failing step propagates.
check_migrations_uncaught(fail, cur, head) ==
    IF fail # ""
    THEN [raised |-> TRUE, ret |-> None]
    ELSE IF cur # head
    THEN [raised |-> FALSE, ret |-> "False"]
    ELSE [raised |-> FALSE, ret |-> "True"]

\* check_migrations(): everything runs inside try / except Exception.
\* `fail` is the step that raises ("" when none does), cur and head are the
\* revisions the database and the script directory hold.
check_migrations(fail, cur, head) ==
    IF fail # ""
    THEN [raised |-> FALSE, ret |-> None]
    ELSE IF cur # head
    THEN [raised |-> FALSE, ret |-> "False"]
    ELSE [raised |-> FALSE, ret |-> "True"]

NoMig == [fail |-> "", current |-> None, head |-> None, raised |-> FALSE, ret |-> None]

\* ----------------------------------------------------------------- handlers
NoBody == <<>>
\* hit: whether the id of the request matched a stored row when it arrived;
\* raised: the exception the data-access call ended with ("" for none);
\* ret: what the data-access call returned; resp: the response body.
NoLast == [op |-> "", id |-> 0, body |-> NoBody, hit |-> FALSE, raised |-> "", ret |-> <<>>,
           status |-> 0, detail |-> "", resp |-> <<>>]

\* fastapi.HTTPException(status_code, detail=None, headers=None), raised by
\* a handler.  Keyword arguments that do not bind are a TypeError, which
\* nothing handles: the server answers 500.
HTTPException(kwargs) ==
    IF "status_code" \in DOMAIN kwargs /\ DOMAIN kwargs \subseteq {"status_code", "detail", "headers"}
    THEN [status |-> kwargs.status_code, detail |-> kwargs.detail]
    ELSE [status |-> 500, detail |-> "Internal Server Error"]

\* raise HTTPException(status=404, detail="Todo not found")
NotFound == HTTPException([status |-> 404, detail |-> "Todo not found"])

\* response_model=TodoResponse applied to what the handler returned.
Respond(rows) ==
    IF \A i \in 1..Len(rows) : TodoResponseValid(rows[i])
    THEN [status |-> 200, detail |-> "", resp |-> [i \in 1..Len(rows) |-> TodoResponse(rows[i])]]
    ELSE [status |-> 500, detail |-> "Internal Server Error", resp |-> <<>>]

ServerError == [status |-> 500, detail |-> "Internal Server Error", resp |-> <<>>]

Answer(op, id, body, hit, r, out) ==
    [op |-> op, id |-> id, body |-> body, hit |-> hit, raised |-> r.raised, ret |-> r.ret,
     status |-> out.status, detail |-> out.detail,
     resp |-> IF "resp" \in DOMAIN out THEN out.resp ELSE <<>>]

Returned(ret) == [raised |-> "", ret |-> ret]

\* one optional key of a JSON payload: <<>> when the key is not sent
Key(k, o) == IF o = <<>> THEN <<>> ELSE (k :> o[1])

Opt(S) == {<<>>} \cup {<<v>> : v \in S}

\* Payloads of POST /todos: the valid ones over titles, completed and
\* due_date, and one payload for each way of failing validation.
CreateBodies ==
    {Key("title", t) @@ Key("completed", c) @@ Key("due_date", d) :
        t \in {<<v>> : v \in JTitles}, c \in Opt(JBools), d \in Opt(JDates)}
    \cup {<<>>,
          "completed" :> "false",
          "title" :> JBadTitle,
          ("title" :> "a") @@ ("completed" :> JBadBool),
          ("title" :> "a") @@ ("due_date" :> JBadDate),
          ("title" :> "a") @@ ("due_date" :> JNull)}

\* Payloads of PUT /todos/{id}: every subset of the fields, each either null
\* or a value, and payloads that also carry an "id" key.
JUpdTitles == {"b"}
JUpdBools == {"true"}
JUpdDates == {}

UpdateBodies ==
    {Key("title", t) @@ Key("completed", c) @@ Key("due_date", d) :
        t \in Opt(JUpdTitles \cup {JNull}),
        c \in Opt(JUpdBools \cup {JNull}),
        d \in Opt(JUpdDates \cup {JNull})}
    \cup {Key("title", t) @@ ("id" :> MaxId) : t \in Opt(JUpdTitles)}

reqVars == <<sess, base, rounds>>
startVars == <<phase, mig, engine>>

\* ------------------------------------------------------------------ actions
Init ==
    /\ phase = "startup"
    /\ mig = NoMig
    /\ engine \in {"rowid", "sequence"}
    /\ seq = 0
    /\ now = 0
    /\ todos = {}
    /\ last = NoLast
    /\ created = 0
    /\ deleted = 0
    /\ removed = {}
    /\ sess = <<>>
    /\ base = {}
    /\ rounds = 0

\* startup_event, first half: check_migrations() runs and returns.
CheckMigrations ==
    /\ phase = "startup"
    /\ \E fail \in FailPoints \cup {""}, cur \in Revs \cup {None}, head \in Revs \cup {None} :
        LET r == check_migrations(fail, cur, head) IN
        mig' = [fail |-> fail,
                current |-> IF fail \in {"config", "connect", "current"} THEN None ELSE cur,
                head |-> IF fail # "" THEN None ELSE head,
                raised |-> r.raised, ret |-> r.ret]
    /\ phase' = "checked"
    /\ UNCHANGED <<engine, seq, now, todos, last, created, deleted, removed, reqVars>>

\* startup_event, second half: the result is dropped and the application
\* starts serving, unless the check raised.
StartupEvent ==
    /\ phase = "checked"
    /\ phase' = IF mig.raised THEN "crashed" ELSE "serving"
    /\ mig' = NoMig
    /\ UNCHANGED <<engine, seq, now, todos, last, created, deleted, removed, reqVars>>

\* GET /todos
GetTodos ==
    /\ phase = "serving"
    /\ \E rows \in get_todos(todos) :
        last' = Answer("list", 0, NoBody, FALSE, Returned(rows), Respond(rows))
    /\ UNCHANGED <<startVars, seq, now, todos, created, deleted, removed, reqVars>>

\* GET /todos/{id}
GetTodo(id) ==
    /\ phase = "serving"
    /\ LET db_todo == get_todo(todos, id) IN
        last' = Answer("get", id, NoBody, id \in LiveIds(todos), Returned(db_todo),
                       IF db_todo = <<>> THEN NotFound ELSE Respond(db_todo))
    /\ UNCHANGED <<startVars, seq, now, todos, created, deleted, removed, reqVars>>

\* POST /todos
CreateTodo(body) ==
    /\ phase = "serving"
    /\ IF ~TodoCreateValid(body)
       THEN /\ last' = Answer("create", 0, body, FALSE, Returned(<<>>),
                              [status |-> 422, detail |-> "Unprocessable Entity"])
            /\ UNCHANGED <<seq, now, todos, created, removed>>
       ELSE LET id == NextId(todos, engine, seq)
                r == create_todo(todos, TodoCreate(body), id, now + 1)
            IN  /\ id <= MaxId
                /\ now < MaxClock
                /\ todos' = r.table
                /\ seq' = IF engine = "sequence" THEN id ELSE seq
                /\ now' = now + 1
                /\ created' = IF r.raised = "" THEN created + 1 ELSE created
                /\ removed' = IF r.raised = "" THEN removed \ {id} ELSE removed
                /\ last' = Answer("create", 0, body, FALSE, r,
                                  IF r.raised = "" THEN Respond(r.ret) ELSE ServerError)
    /\ UNCHANGED <<startVars, deleted, reqVars>>

\* PUT /todos/{id}
UpdateTodo(id, body) ==
    /\ phase = "serving"
    /\ TodoUpdateValid(body)
    /\ LET r == update_todo(todos, id, TodoUpdate(body), now + 1) IN
        /\ r.wrote => now < MaxClock
        /\ todos' = r.table
        /\ now' = IF r.wrote THEN now + 1 ELSE now
        /\ last' = Answer("update", id, body, id \in LiveIds(todos), r,
                          IF r.raised # "" THEN ServerError
                          ELSE IF r.ret = <<>> THEN NotFound
                          ELSE Respond(r.ret))
    /\ UNCHANGED <<startVars, seq, created, deleted, removed, reqVars>>

\* DELETE /todos/{id}
DeleteTodo(id) ==
    /\ phase = "serving"
    /\ LET r == delete_todo(todos, id) IN
        /\ todos' = r.table
        /\ deleted' = IF r.ret # <<>> THEN deleted + 1 ELSE deleted
        /\ removed' = IF r.ret # <<>> THEN removed \cup {id} ELSE removed
        /\ last' = Answer("delete", id, NoBody, id \in LiveIds(todos), r,
                          IF r.ret = <<>> THEN NotFound
                          ELSE [status |-> 200, detail |-> "Todo deleted successfully"])
    /\ UNCHANGED <<startVars, seq, now, created, reqVars>>

Next ==
    \/ CheckMigrations
    \/ StartupEvent
    \/ GetTodos
    \/ \E id \in Ids : GetTodo(id)
    \/ \E body \in CreateBodies : CreateTodo(body)
    \/ \E id \in Ids, body \in UpdateBodies : UpdateTodo(id, body)
    \/ \E id \in Ids : DeleteTodo(id)

Spec == Init /\ [][Next]_vars

\* ------------------------------------------------------ concurrent requests
\* Two requests in flight, each with its own session (get_db_session yields
\* one per request).  A session reads the latest committed table when it
\* loads its row and the storage engine applies its UPDATE or DELETE to the
\* latest committed table when it commits.
Sessions == {"s1", "s2"}

TxnBodies ==
    {("completed" :> "false") @@ ("due_date" :> JNull),
     ("completed" :> "true") @@ ("due_date" :> "2026-01-01"),
     "completed" :> "true"}

TxnOps ==
    {[op |-> "delete", body |-> NoBody]} \cup {[op |-> "update", body |-> b] : b \in TxnBodies}

TxnCreateBodies ==
    {("title" :> "a") @@ ("due_date" :> "2026-01-01"),
     ("title" :> "b") @@ ("completed" :> "true")}

\* POST /todos while no other request is in flight.
TxnCreate(body) ==
    /\ sess = <<>>
    /\ CreateTodo(body)

\* Two update / delete requests arrive.
Arrive(id1, o1, id2, o2) ==
    /\ phase = "serving"
    /\ sess = <<>>
    /\ rounds < MaxRounds
    /\ sess' = [s \in Sessions |->
                 [pc |-> "open", op |-> IF s = "s1" THEN o1.op ELSE o2.op,
                  id |-> IF s = "s1" THEN id1 ELSE id2,
                  body |-> IF s = "s1" THEN o1.body ELSE o2.body,
                  loaded |-> <<>>, raised |-> "", ret |-> <<>>]]
    /\ base' = todos
    /\ rounds' = rounds + 1
    /\ UNCHANGED <<startVars, seq, now, todos, last, created, deleted, removed>>

\* First line of update_todo / delete_todo: db.query(Todo).filter(...).first().
\* With no row the function returns None and the request is over.
Load(s) ==
    /\ sess # <<>>
    /\ sess[s].pc = "open"
    /\ LET db_todo == get_todo(todos, sess[s].id) IN
        sess' = [sess EXCEPT ![s].loaded = db_todo,
                             ![s].pc = IF db_todo = <<>> THEN "done" ELSE "loaded"]
    /\ UNCHANGED <<startVars, seq, now, todos, last, created, deleted, removed, base, rounds>>

\* The rest of update_todo / delete_todo: setattr or db.delete, db.commit(),
\* db.refresh().
Commit(s) ==
    /\ sess # <<>>
    /\ sess[s].pc = "loaded"
    /\ LET loaded == sess[s].loaded[1] IN
        IF sess[s].op = "update"
        THEN LET r == update_loaded(todos, loaded, TodoUpdate(sess[s].body), now + 1) IN
             /\ todos' = r.table
             /\ now' = IF r.wrote THEN now + 1 ELSE now
             /\ sess' = [sess EXCEPT ![s].pc = "done", ![s].raised = r.raised, ![s].ret = r.ret]
             /\ UNCHANGED <<deleted, removed>>
        ELSE LET r == delete_loaded(todos, loaded) IN
             /\ todos' = r.table
             /\ now' = now
             /\ deleted' = IF loaded.id \in LiveIds(todos) THEN deleted + 1 ELSE deleted
             /\ removed' = removed \cup {loaded.id}
             /\ sess' = [sess EXCEPT ![s].pc = "done", ![s].raised = r.raised, ![s].ret = r.ret]
    /\ UNCHANGED <<startVars, seq, last, created, base, rounds>>

\* Both requests are answered and their sessions closed.
Finish ==
    /\ sess # <<>>
    /\ \A s \in Sessions : sess[s].pc = "done"
    /\ sess' = <<>>
    /\ base' = {}
    /\ UNCHANGED <<startVars, seq, now, todos, last, created, deleted, removed, rounds>>

NextTxn ==
    \/ CheckMigrations
    \/ StartupEvent
    \/ \E body \in TxnCreateBodies : TxnCreate(body)
    \/ \E id1, id2 \in Ids, o1, o2 \in TxnOps : Arrive(id1, o1, id2, o2)
    \/ \E s \in Sessions : Load(s)
    \/ \E s \in Sessions : Commit(s)
    \/ Finish

SpecTxn == Init /\ [][NextTxn]_vars

\* =================================================================== claims
HandlerOps == {"get", "update", "delete"}

\* The stored row with this id (the table holds at most one, see C10).
RowOf(T, id) == CHOOSE r \in T : r.id = id

\* The Python value a JSON token of an update payload stands for.
Sent(tok) ==
    CASE tok = "null" -> None
      [] tok = "true" -> "True"
      [] tok = "false" -> "False"
      [] tok = "2026-01-01" -> "date(2026,1,1)"
      [] OTHER -> tok

\* C1: a get, update or delete request whose id matches no stored row is
\* answered 404 with detail "Todo not found".
C1_NotFoundIs404 ==
    (last.op \in HandlerOps /\ ~last.hit)
        => (last.status = 404 /\ last.detail = "Todo not found")

\* C2: an update of an existing row leaves every field the payload does not
\* carry at its stored value, keeps the id, and on success gives every field
\* the payload carries the value sent; the row returned is the stored row.
C2_UpdateTouchesOnlySentFields ==
    [][(last'.op = "update" /\ last'.hit) =>
        /\ last'.id \in LiveIds(todos')
        /\ LET old == RowOf(todos, last'.id)
               new == RowOf(todos', last'.id)
           IN  /\ \A k \in Fields \ DOMAIN last'.body : new[k] = old[k]
               /\ new.created_at = old.created_at
               /\ last'.raised = "" =>
                    /\ \A k \in Fields \cap DOMAIN last'.body : new[k] = Sent(last'.body[k])
                    /\ last'.ret = <<new>>
               /\ last'.raised # "" => new = old
        /\ LiveIds(todos') = LiveIds(todos)]_vars

C2_Witness ==
    /\ last.op = "update" /\ last.hit /\ last.raised = ""
    /\ DOMAIN last.body = {"completed"}
    /\ last.ret[1].completed = "True"
    /\ last.ret[1].due_date # None
    /\ last.ret[1].updated_at > last.ret[1].created_at

\* C3: update and delete of an id that matches no row return None and leave
\* the table exactly as it was.
C3_AbsentIdNoEffect ==
    [][(last'.op \in {"update", "delete"} /\ ~last'.hit) =>
        /\ last'.ret = <<>>
        /\ last'.raised = ""
        /\ todos' = todos]_vars

C3_Witness ==
    /\ last.op = "update" /\ ~last.hit
    /\ DOMAIN last.body # {}
    /\ todos # {}

\* C4: a successful delete returns the row as stored just before and removes
\* it; from then on get and delete of that id find nothing and list omits it,
\* and the id becomes live again only by a create that is handed that id.
C4_DeleteIsPermanent ==
    [][/\ (last'.op = "delete" /\ last'.hit) =>
            /\ last'.ret = <<RowOf(todos, last'.id)>>
            /\ last'.id \notin LiveIds(todos')
            /\ last'.id \in removed'
       /\ (last'.op \in {"get", "delete"} /\ last'.id \in removed) => last'.ret = <<>>
       /\ last'.op = "list" => \A i \in 1..Len(last'.ret) : last'.ret[i].id \notin removed
       /\ \A id \in removed :
            id \in LiveIds(todos') =>
                (last'.op = "create" /\ last'.ret # <<>> /\ last'.ret[1].id = id)
       /\ LiveIds(todos') \cap removed' = {}]_vars

C4_Witness ==
    /\ last.op = "delete" /\ ~last.hit
    /\ last.id \in removed
    /\ todos # {}

\* C5: a valid create returns a stored row whose title, completed and
\* due_date are those of the validated input, and a get issued right after
\* it, for the id it returned, returns that same row: same id, fields and
\* timestamps.
C5_GetAfterCreate ==
    [][/\ (last'.op = "create" /\ last'.status # 422) =>
            /\ last'.status = 200
            /\ Len(last'.ret) = 1
            /\ last'.ret[1] \in todos'
            /\ LET x == CreateDump(TodoCreate(last'.body))
                   row == last'.ret[1]
               IN  /\ row.title = x.title
                   /\ row.completed = x.completed
                   /\ row.due_date = x.due_date
       /\ (/\ last.op = "create" /\ last.status = 200
           /\ last'.op = "get"
           /\ last'.id = last.ret[1].id) =>
            last'.ret = last.ret]_vars

C5_Witness ==
    /\ last.op = "get" /\ last.hit
    /\ created = 1 /\ deleted = 0 /\ now = 1
    /\ last.ret[1].completed = "True"
    /\ last.ret[1].due_date = "date(2026,1,1)"

\* C6: list returns every stored row exactly once, and the number of stored
\* rows is the number of successful creates minus the number of successful
\* deletes.
C6_ListIsTheTable ==
    /\ Cardinality(todos) = created - deleted
    /\ last.op = "list" =>
        /\ Len(last.ret) = created - deleted
        /\ {last.ret[i] : i \in 1..Len(last.ret)} = todos
        /\ \A i, j \in 1..Len(last.ret) : last.ret[i] = last.ret[j] => i = j

C6_Witness ==
    /\ last.op = "list"
    /\ Len(last.ret) = 1
    /\ created = 2 /\ deleted = 1

\* C7: a create payload with no title, a title that is not a string, a
\* completed that is not a boolean or a due_date that does not parse is
\* answered 422 and the table is left as it was.
BadCreate(body) ==
    \/ "title" \notin DOMAIN body
    \/ ("title" \in DOMAIN body /\ body["title"] = JBadTitle)
    \/ ("completed" \in DOMAIN body /\ body["completed"] = JBadBool)
    \/ ("due_date" \in DOMAIN body /\ body["due_date"] = JBadDate)

C7_InvalidCreateRejected ==
    [][(last'.op = "create" /\ BadCreate(last'.body)) =>
        /\ last'.status = 422
        /\ todos' = todos
        /\ created' = created
        /\ seq' = seq]_vars

C7_Witness ==
    /\ last.op = "create" /\ last.status = 422
    /\ "due_date" \in DOMAIN last.body /\ last.body["due_date"] = JBadDate
    /\ todos # {}

\* What is stored, timestamps aside.
Project(T) ==
    {[id |-> r.id, title |-> r.title, completed |-> r.completed, due_date |-> r.due_date] :
        r \in T}

\* The table after one whole update_todo or delete_todo call.
ApplyOp(T, o) ==
    IF o.op = "update"
    THEN update_todo(T, o.id, TodoUpdate(o.body), 0).table
    ELSE delete_todo(T, o.id).table

\* C8: when two update / delete requests on the same id have both finished,
\* the stored state is what running the two calls one after the other, in
\* one of the two orders, leaves.
C8_SameIdSerializable ==
    (/\ sess # <<>>
     /\ \A s \in Sessions : sess[s].pc = "done"
     /\ sess["s1"].id = sess["s2"].id) =>
        Project(todos) \in {Project(ApplyOp(ApplyOp(base, sess["s1"]), sess["s2"])),
                            Project(ApplyOp(ApplyOp(base, sess["s2"]), sess["s1"]))}

\* C9: check_migrations never raises; it returns True exactly when both
\* revisions were obtained and are equal, False exactly when both were
\* obtained and differ, None exactly when obtaining one failed; startup never
\* ends crashed.
C9_MigrationCheckTriState ==
    /\ phase # "crashed"
    /\ phase = "checked" =>
        /\ ~mig.raised
        /\ mig.ret = "True" <=> (mig.fail = "" /\ mig.current = mig.head)
        /\ mig.ret = "False" <=> (mig.fail = "" /\ mig.current # mig.head)
        /\ mig.ret = None <=> mig.fail # ""

C9_Witness ==
    /\ phase = "checked"
    /\ mig.fail = "connect"
    /\ mig.ret = None

\* C10: no two stored rows share an id, and an update, whatever its payload
\* carries, leaves the set of ids and the identity of every row as they were.
C10_IdUniqueAndFixed ==
    /\ [](\A r1, r2 \in todos : r1.id = r2.id => r1 = r2)
    /\ [][last'.op = "update" =>
            /\ LiveIds(todos') = LiveIds(todos)
            /\ \A r \in todos : \E r2 \in todos' :
                    r2.id = r.id /\ r2.created_at = r.created_at
            /\ last'.ret # <<>> => last'.ret[1].id = last'.id]_vars

C10_Witness ==
    /\ last.op = "update" /\ last.hit /\ last.status = 200
    /\ "id" \in DOMAIN last.body
    /\ last.body["id"] # last.id
    /\ Cardinality(todos) = 1

\* The stored rows with this id.
RowsOf(T, id) == {r \in T : r.id = id}

\* Session s commits in this step.
Commits(s) ==
    /\ sess # <<>> /\ sess' # <<>>
    /\ sess[s].pc = "loaded" /\ sess'[s].pc = "done"

\* C11: with requests in flight in any interleaving, the commit of an update
\* or delete leaves every row with another id exactly as stored, loading a
\* row writes nothing, a create leaves every row that was stored in place,
\* and two finished requests on different ids leave what either order of the
\* two calls, run one after the other, leaves.
C11_OtherIdsUntouched ==
    /\ [][/\ \A s \in Sessions : Commits(s) =>
                \A id \in (LiveIds(todos) \cup LiveIds(todos')) \ {sess[s].id} :
                    RowsOf(todos', id) = RowsOf(todos, id)
          /\ (sess # <<>> /\ sess' # <<>> /\ \A s \in Sessions : ~Commits(s)) =>
                todos' = todos
          /\ created' # created => todos \subseteq todos']_vars
    /\ []((/\ sess # <<>>
           /\ \A s \in Sessions : sess[s].pc = "done"
           /\ sess["s1"].id # sess["s2"].id) =>
            /\ Project(todos) = Project(ApplyOp(ApplyOp(base, sess["s1"]), sess["s2"]))
            /\ Project(todos) = Project(ApplyOp(ApplyOp(base, sess["s2"]), sess["s1"])))

C11_Witness ==
    /\ sess # <<>>
    /\ \A s \in Sessions : sess[s].pc = "done"
    /\ sess["s1"].id # sess["s2"].id
    /\ sess["s1"].op = "update" /\ sess["s1"].ret # <<>>
    /\ sess["s1"].ret[1].updated_at > sess["s1"].ret[1].created_at
    /\ sess["s2"].op = "delete" /\ sess["s2"].ret # <<>>
    /\ Cardinality(todos) = 1

\* C12: a create request whose payload carries a title and nothing else is
\* answered 200; the row it returns is stored, has the title sent, completed
\* False, due_date None, a generated id and both timestamps set to the time
\* of the insert, and the response body shows completed false and due_date
\* null.
C12_TitleOnlyCreate ==
    (last.op = "create" /\ DOMAIN last.body = {"title"} /\ last.body["title"] \in JTitles) =>
        /\ last.status = 200
        /\ Len(last.ret) = 1
        /\ last.ret[1] \in todos
        /\ last.ret[1].title = last.body["title"]
        /\ last.ret[1].completed = "False"
        /\ last.ret[1].due_date = None
        /\ last.ret[1].id \in 1..MaxId
        /\ last.ret[1].created_at = now /\ last.ret[1].updated_at = now /\ now > 0
        /\ Len(last.resp) = 1
        /\ last.resp[1].title = last.body["title"]
        /\ last.resp[1].completed = "false"
        /\ last.resp[1].due_date = JNull

C12_Witness ==
    /\ last.op = "create" /\ DOMAIN last.body = {"title"}
    /\ last.status = 200
    /\ last.ret[1].id = 2
    /\ Cardinality(todos) = 2

\* C13: every stored row has a title and a completed that are not None, and
\* a get that finds its row and every list are answered 200.
C13_RowsRenderable ==
    /\ \A r \in todos : r.title # None /\ r.completed # None
    /\ (last.op = "get" /\ last.hit) => last.status = 200
    /\ last.op = "list" => last.status = 200

====
